---- MODULE Spec2Model ----
(***************************************************************************)
(* Model of the shared browser / tab pool manager of                       *)
(* sawari-expert/middlewares.py (class SeleniumMiddleware).                *)
(*                                                                         *)
(* Python threads call the constructor, process_request and spider_closed  *)
(* of middleware instances.  Every statement of these three methods that   *)
(* touches shared state (module globals, the two module locks, the Queue   *)
(* objects, the driver objects) is one step of the calling thread.  A      *)
(* response that process_request returns is handed to the spider's parse   *)
(* callback (spiders/carexpert_features_specs.py), which goes on using the *)
(* driver of response.meta.                                                *)
(***************************************************************************)
EXTENDS Integers, Sequences, FiniteSets, TLC

\* ---------------------------------------------------------------- bounds
NThreads == 2          \* Python threads calling into the middleware
MaxOps == 4            \* method calls started in one behaviour
MaxDrivers == 2        \* driver processes that can be launched successfully
MaxTabs == 2           \* largest max_tabs argument passed to the constructor

Threads == 1 .. NThreads
Drivers == 1 .. MaxDrivers
TabArgs == 0 .. MaxTabs
Browsers == {"firefox", "chrome"}

\* Python's None for the object-valued globals (object ids start at 1).
None == 0
\* Python's None for _GLOBAL_MAX_TABS (max_tabs itself may be 0).
NoTabs == -1
\* A thread that has no middleware instance / no tab handle.
NoInst == [driver |-> None, tab_pool |-> None, max_tabs |-> NoTabs, lock |-> "none"]
NoTab == <<0, 0>>
Blank == 0

VARIABLES
    GLOBAL_DRIVER,        \* _GLOBAL_DRIVER: None or a driver object
    GLOBAL_TAB_POOL,      \* _GLOBAL_TAB_POOL: None or a Queue object
    GLOBAL_MAX_TABS,      \* _GLOBAL_MAX_TABS: NoTabs or an int
    GLOBAL_LOCK,          \* _GLOBAL_LOCK: None or the thread that holds it
    GLOBAL_INSTANCE_LOCK, \* _GLOBAL_INSTANCE_LOCK: None or its holder
    launched,             \* number of driver processes launched so far
    drvState,             \* driver -> "none" | "running" | "quit"
    drvKind,              \* driver -> browser it runs, extension loaded or not
    window_handles,       \* driver -> sequence of its tab handles
    current,              \* driver -> handle of its active context
    loaded,               \* driver -> sequence: URL loaded in each tab
    queue,                \* Queue object -> sequence of tab handles (FIFO)
    inst,                 \* thread -> the middleware instance it constructed
    closedInst,           \* threads on whose instance spider_closed was called
    pc,                   \* thread -> position in the method it executes
    self,                 \* thread -> the instance its current call runs on
    arg,                  \* thread -> arguments of its current call
    tab_handle,           \* thread -> local tab_handle of process_request
    resp,                 \* thread -> what its last call returned / raised
    quitCalls,            \* number of driver.quit() calls issued
    ops                   \* number of method calls started

globals == <<GLOBAL_DRIVER, GLOBAL_TAB_POOL, GLOBAL_MAX_TABS>>
locks == <<GLOBAL_LOCK, GLOBAL_INSTANCE_LOCK>>
driverVars == <<launched, drvState, drvKind, window_handles, current, loaded, quitCalls>>
threadVars == <<inst, closedInst, pc, self, arg, tab_handle, resp>>
vars == <<globals, locks, driverVars, queue, threadVars, ops>>

\* ------------------------------------------------------------- helpers
NoArg == [browser |-> "none", max_tabs |-> NoTabs, url |-> Blank, i |-> 0, closed |-> FALSE]
NoResp == [op |-> "none", status |-> "none", url |-> Blank, body |-> Blank,
           driver |-> None, tab_handle |-> NoTab, max_tabs |-> NoTabs]

\* The tab handle the driver gives to its k-th tab.
Handle(d, k) == <<d, k>>

\* range(n) taken as 0 .. n.
Range_Inclusive(n) == 0 .. n

\* range(n) of Python: 0 .. n-1, empty when n <= 0.
Range(n) == 0 .. (n - 1)

\* all_tabs instead of all_tabs[1:].
Rest_All(s) == s

\* all_tabs[1:] of Python.
Rest(s) == IF Len(s) = 0 THEN <<>> ELSE Tail(s)

\* Position of handle h in the handle list of driver d (0 when absent).
IndexOf(d, h) ==
    IF \E k \in 1 .. Len(window_handles[d]) : window_handles[d][k] = h
    THEN CHOOSE k \in 1 .. Len(window_handles[d]) : window_handles[d][k] = h
    ELSE 0

Init ==
    /\ GLOBAL_DRIVER = None
    /\ GLOBAL_TAB_POOL = None
    /\ GLOBAL_MAX_TABS = NoTabs
    /\ GLOBAL_LOCK = None
    /\ GLOBAL_INSTANCE_LOCK = None
    /\ launched = 0
    /\ drvState = [d \in Drivers |-> "none"]
    /\ drvKind = [d \in Drivers |-> [browser |-> "none", ext |-> FALSE]]
    /\ window_handles = [d \in Drivers |-> <<>>]
    /\ current = [d \in Drivers |-> NoTab]
    /\ loaded = [d \in Drivers |-> <<>>]
    /\ queue = [d \in Drivers |-> <<>>]
    /\ inst = [t \in Threads |-> NoInst]
    /\ closedInst = {}
    /\ pc = [t \in Threads |-> "idle"]
    /\ self = [t \in Threads |-> NoInst]
    /\ arg = [t \in Threads |-> NoArg]
    /\ tab_handle = [t \in Threads |-> NoTab]
    /\ resp = [t \in Threads |-> NoResp]
    /\ quitCalls = 0
    /\ ops = 0

\* The single lock object every instance stores in self.lock.
InstanceLock == "GLOBAL_INSTANCE_LOCK"

\* Leaving a `with _GLOBAL_LOCK:` / `with self.lock:` block, normally or by
\* an exception, releases the lock.
Release(lock, t) == IF lock = t THEN None ELSE lock

Return(t, r) ==
    /\ pc' = [pc EXCEPT ![t] = "idle"]
    /\ resp' = [resp EXCEPT ![t] = r]
    /\ arg' = [arg EXCEPT ![t] = NoArg]
    /\ self' = [self EXCEPT ![t] = NoInst]

\* -------------------------------------------- SeleniumMiddleware.__init__
\* A thread calls SeleniumMiddleware(browser, max_tabs).
CallInit(t, browser, max_tabs) ==
    /\ pc[t] = "idle"
    /\ ops < MaxOps
    /\ ops' = ops + 1
    /\ pc' = [pc EXCEPT ![t] = "init_lock"]
    /\ arg' = [arg EXCEPT ![t] = [NoArg EXCEPT !.browser = browser, !.max_tabs = max_tabs]]
    /\ resp' = [resp EXCEPT ![t] = NoResp]
    /\ UNCHANGED <<globals, locks, driverVars, queue, inst, closedInst, self, tab_handle>>

\* InitLock without mutual exclusion: the constructor body entered without
\* waiting for _GLOBAL_LOCK.
InitLock_NoMutex(t) ==
    /\ pc[t] = "init_lock"
    /\ GLOBAL_LOCK' = t
    /\ pc' = [pc EXCEPT ![t] = "init_check"]
    /\ UNCHANGED <<globals, GLOBAL_INSTANCE_LOCK, driverVars, queue, inst, closedInst, self, arg,
                   tab_handle, resp, ops>>

\* with _GLOBAL_LOCK:
InitLock(t) ==
    /\ pc[t] = "init_lock"
    /\ GLOBAL_LOCK = None
    /\ GLOBAL_LOCK' = t
    /\ pc' = [pc EXCEPT ![t] = "init_check"]
    /\ UNCHANGED <<globals, GLOBAL_INSTANCE_LOCK, driverVars, queue, inst, closedInst, self, arg,
                   tab_handle, resp, ops>>

\* InitReuse that records the caller's max_tabs instead of _GLOBAL_MAX_TABS.
InitReuse_TakesArg(t) ==
    /\ pc[t] = "init_check"
    /\ GLOBAL_DRIVER # None
    /\ inst' = [inst EXCEPT ![t] = [driver |-> GLOBAL_DRIVER, tab_pool |-> GLOBAL_TAB_POOL,
                                    max_tabs |-> arg[t].max_tabs, lock |-> InstanceLock]]
    /\ closedInst' = closedInst \ {t}
    /\ GLOBAL_LOCK' = Release(GLOBAL_LOCK, t)
    /\ Return(t, [NoResp EXCEPT !.op = "init", !.status = "reused",
                                !.max_tabs = arg[t].max_tabs])
    /\ UNCHANGED <<globals, GLOBAL_INSTANCE_LOCK, driverVars, queue, tab_handle, ops>>

\* if _GLOBAL_DRIVER is not None: take the globals and return.
InitReuse(t) ==
    /\ pc[t] = "init_check"
    /\ GLOBAL_DRIVER # None
    /\ inst' = [inst EXCEPT ![t] = [driver |-> GLOBAL_DRIVER, tab_pool |-> GLOBAL_TAB_POOL,
                                    max_tabs |-> GLOBAL_MAX_TABS, lock |-> InstanceLock]]
    /\ closedInst' = closedInst \ {t}
    /\ GLOBAL_LOCK' = Release(GLOBAL_LOCK, t)
    /\ Return(t, [NoResp EXCEPT !.op = "init", !.status = "reused",
                                !.max_tabs = arg[t].max_tabs])
    /\ UNCHANGED <<globals, GLOBAL_INSTANCE_LOCK, driverVars, queue, tab_handle, ops>>

\* InitLaunch with the extension required: when add_extension fails the
\* driver still comes up, but the failure is raised and the constructor is
\* left.
InitLaunch_ExtRequired(t, ext) ==
    /\ pc[t] = "init_check"
    /\ GLOBAL_DRIVER = None
    /\ launched < MaxDrivers
    /\ ext => arg[t].browser # "chrome"
    /\ LET d == launched + 1 IN
        /\ launched' = d
        /\ drvState' = [drvState EXCEPT ![d] = "running"]
        /\ drvKind' = [drvKind EXCEPT ![d] = [browser |-> IF arg[t].browser = "chrome"
                                                          THEN "chrome" ELSE "firefox",
                                              ext |-> ext]]
        /\ window_handles' = [window_handles EXCEPT ![d] = <<Handle(d, 1)>>]
        /\ current' = [current EXCEPT ![d] = Handle(d, 1)]
        /\ loaded' = [loaded EXCEPT ![d] = <<Blank>>]
        /\ IF ext \/ arg[t].browser = "chrome"
           THEN /\ self' = [self EXCEPT ![t] = [driver |-> d, tab_pool |-> None,
                                                max_tabs |-> arg[t].max_tabs,
                                                lock |-> InstanceLock]]
                /\ pc' = [pc EXCEPT ![t] = "init_pool"]
                /\ UNCHANGED <<GLOBAL_LOCK, arg, resp>>
           ELSE /\ GLOBAL_LOCK' = Release(GLOBAL_LOCK, t)
                /\ Return(t, [NoResp EXCEPT !.op = "init", !.status = "raised"])
    /\ UNCHANGED <<globals, GLOBAL_INSTANCE_LOCK, quitCalls, queue, inst, closedInst,
                   tab_handle, ops>>

\* self.max_tabs = max_tabs; self.lock = ...; self.driver = Chrome(...) or
\* Firefox(...) with the optional extension: the driver process starts with
\* one tab, which is its active context.
InitLaunch(t, ext) ==
    /\ pc[t] = "init_check"
    /\ GLOBAL_DRIVER = None
    /\ launched < MaxDrivers
    /\ ext => arg[t].browser # "chrome"
    /\ LET d == launched + 1 IN
        /\ launched' = d
        /\ drvState' = [drvState EXCEPT ![d] = "running"]
        /\ drvKind' = [drvKind EXCEPT ![d] = [browser |-> IF arg[t].browser = "chrome"
                                                          THEN "chrome" ELSE "firefox",
                                              ext |-> ext]]
        /\ window_handles' = [window_handles EXCEPT ![d] = <<Handle(d, 1)>>]
        /\ current' = [current EXCEPT ![d] = Handle(d, 1)]
        /\ loaded' = [loaded EXCEPT ![d] = <<Blank>>]
        /\ self' = [self EXCEPT ![t] = [driver |-> d, tab_pool |-> None,
                                        max_tabs |-> arg[t].max_tabs, lock |-> InstanceLock]]
    /\ pc' = [pc EXCEPT ![t] = "init_pool"]
    /\ UNCHANGED <<globals, locks, quitCalls, queue, inst, closedInst, arg, tab_handle, resp, ops>>

\* InitLaunchFail with the lock taken by acquire() and no try/finally: the
\* exception leaves the constructor with _GLOBAL_LOCK still held.
InitLaunchFail_KeepsLock(t) ==
    /\ pc[t] = "init_check"
    /\ GLOBAL_DRIVER = None
    /\ Return(t, [NoResp EXCEPT !.op = "init", !.status = "launch_failed"])
    /\ UNCHANGED <<globals, locks, driverVars, queue, inst, closedInst, tab_handle, ops>>

\* _get_driver_path or the driver constructor raises: no driver process,
\* the exception leaves the with block and the constructor.
InitLaunchFail(t) ==
    /\ pc[t] = "init_check"
    /\ GLOBAL_DRIVER = None
    /\ GLOBAL_LOCK' = Release(GLOBAL_LOCK, t)
    /\ Return(t, [NoResp EXCEPT !.op = "init", !.status = "launch_failed"])
    /\ UNCHANGED <<globals, GLOBAL_INSTANCE_LOCK, driverVars, queue, inst, closedInst, tab_handle, ops>>

\* InitPool that stores the globals as soon as the pool object exists,
\* before the tabs are opened and enumerated.
InitPool_StoresEarly(t) ==
    /\ pc[t] = "init_pool"
    /\ LET d == self[t].driver IN
        /\ queue' = [queue EXCEPT ![d] = <<current[d]>>]
        /\ self' = [self EXCEPT ![t].tab_pool = d]
        /\ GLOBAL_DRIVER' = d
        /\ GLOBAL_TAB_POOL' = d
        /\ GLOBAL_MAX_TABS' = self[t].max_tabs
    /\ arg' = [arg EXCEPT ![t].i = 0]
    /\ pc' = [pc EXCEPT ![t] = "init_open"]
    /\ UNCHANGED <<locks, driverVars, inst, closedInst, tab_handle, resp, ops>>

\* self.tab_pool = Queue(); main_tab = current_window_handle; put(main_tab)
InitPool(t) ==
    /\ pc[t] = "init_pool"
    /\ LET d == self[t].driver IN
        /\ queue' = [queue EXCEPT ![d] = <<current[d]>>]
        /\ self' = [self EXCEPT ![t].tab_pool = d]
    /\ arg' = [arg EXCEPT ![t].i = 0]
    /\ pc' = [pc EXCEPT ![t] = "init_open"]
    /\ UNCHANGED <<globals, locks, driverVars, inst, closedInst, tab_handle, resp, ops>>

\* for i in range(max_tabs - 1): execute_script("window.open('', '_blank');")
InitOpen(t) ==
    /\ pc[t] = "init_open"
    /\ arg[t].i \in Range(arg[t].max_tabs - 1)
    /\ LET d == self[t].driver IN
        /\ window_handles' = [window_handles EXCEPT
                                ![d] = Append(@, Handle(d, Len(@) + 1))]
        /\ loaded' = [loaded EXCEPT ![d] = Append(@, Blank)]
    /\ arg' = [arg EXCEPT ![t].i = @ + 1]
    /\ UNCHANGED <<globals, locks, launched, drvState, drvKind, current, quitCalls,
                   queue, inst, closedInst, pc, self, tab_handle, resp, ops>>

\* all_tabs = window_handles; for tab in all_tabs[1:]: put(tab)
InitEnum(t) ==
    /\ pc[t] = "init_open"
    /\ arg[t].i \notin Range(arg[t].max_tabs - 1)
    /\ LET d == self[t].driver IN
        queue' = [queue EXCEPT ![self[t].tab_pool] = @ \o Rest(window_handles[d])]
    /\ pc' = [pc EXCEPT ![t] = "init_store"]
    /\ UNCHANGED <<globals, locks, driverVars, inst, closedInst, self, arg, tab_handle, resp, ops>>

\* _GLOBAL_DRIVER = self.driver; _GLOBAL_TAB_POOL = ...; _GLOBAL_MAX_TABS = ...
\* then the with block and the constructor end.
InitStore(t) ==
    /\ pc[t] = "init_store"
    /\ GLOBAL_DRIVER' = self[t].driver
    /\ GLOBAL_TAB_POOL' = self[t].tab_pool
    /\ GLOBAL_MAX_TABS' = self[t].max_tabs
    /\ inst' = [inst EXCEPT ![t] = self[t]]
    /\ closedInst' = closedInst \ {t}
    /\ GLOBAL_LOCK' = Release(GLOBAL_LOCK, t)
    /\ Return(t, [NoResp EXCEPT !.op = "init", !.status = "created",
                                !.max_tabs = arg[t].max_tabs])
    /\ UNCHANGED <<GLOBAL_INSTANCE_LOCK, driverVars, queue, tab_handle, ops>>

\* InitFail with the lock taken by acquire() and no try/finally: the
\* exception leaves the constructor with _GLOBAL_LOCK still held.
InitFail_KeepsLock(t) ==
    /\ pc[t] \in {"init_pool", "init_open"}
    /\ Return(t, [NoResp EXCEPT !.op = "init", !.status = "raised"])
    /\ UNCHANGED <<globals, locks, driverVars, queue, inst, closedInst, tab_handle, ops>>

\* A driver command of the creation path (current_window_handle,
\* execute_script, window_handles) raises: the exception leaves the with
\* block and the constructor; nothing quits the launched driver.
InitFail(t) ==
    /\ pc[t] \in {"init_pool", "init_open"}
    /\ GLOBAL_LOCK' = Release(GLOBAL_LOCK, t)
    /\ Return(t, [NoResp EXCEPT !.op = "init", !.status = "raised"])
    /\ UNCHANGED <<globals, GLOBAL_INSTANCE_LOCK, driverVars, queue, inst, closedInst, tab_handle, ops>>

\* ------------------------------------- SeleniumMiddleware.process_request
\* A thread calls process_request(request, spider) on the instance that
\* thread i constructed; each thread requests its own URL.
CallProcessRequest(t, i) ==
    /\ pc[t] = "idle"
    /\ ops < MaxOps
    /\ inst[i] # NoInst
    /\ ops' = ops + 1
    /\ self' = [self EXCEPT ![t] = inst[i]]
    /\ arg' = [arg EXCEPT ![t] = [NoArg EXCEPT !.url = t,
                                               !.closed = (/\ GLOBAL_DRIVER # inst[i].driver
                                                           /\ drvState[inst[i].driver] = "quit")]]
    /\ resp' = [resp EXCEPT ![t] = NoResp]
    /\ pc' = [pc EXCEPT ![t] = "pr_get"]
    /\ UNCHANGED <<globals, locks, driverVars, queue, inst, closedInst, tab_handle>>

\* PrGet that reads the head of the queue without removing it.
PrGet_Peek(t) ==
    /\ pc[t] = "pr_get"
    /\ queue[self[t].tab_pool] # <<>>
    /\ tab_handle' = [tab_handle EXCEPT ![t] = Head(queue[self[t].tab_pool])]
    /\ pc' = [pc EXCEPT ![t] = "pr_lock"]
    /\ UNCHANGED <<globals, locks, driverVars, queue, inst, closedInst, self, arg, resp, ops>>

\* PrGet with get_nowait-like behaviour: when the queue is empty the call
\* does not wait and goes on with the driver's active tab.
PrGet_NoBlock(t) ==
    /\ pc[t] = "pr_get"
    /\ LET q == queue[self[t].tab_pool] IN
        /\ tab_handle' = [tab_handle EXCEPT ![t] = IF q = <<>> THEN current[self[t].driver]
                                                               ELSE Head(q)]
        /\ queue' = [queue EXCEPT ![self[t].tab_pool] = IF q = <<>> THEN q ELSE Tail(q)]
    /\ pc' = [pc EXCEPT ![t] = "pr_lock"]
    /\ UNCHANGED <<globals, locks, driverVars, inst, closedInst, self, arg, resp, ops>>

\* PrGet as get(timeout=...): when the queue is empty the wait ends with
\* queue.Empty and the call returns an error without a tab.
PrGet_Timeout(t) ==
    /\ pc[t] = "pr_get"
    /\ IF queue[self[t].tab_pool] # <<>>
       THEN /\ tab_handle' = [tab_handle EXCEPT ![t] = Head(queue[self[t].tab_pool])]
            /\ queue' = [queue EXCEPT ![self[t].tab_pool] = Tail(@)]
            /\ pc' = [pc EXCEPT ![t] = "pr_lock"]
            /\ UNCHANGED <<self, arg, resp>>
       ELSE /\ Return(t, [NoResp EXCEPT !.op = "process_request", !.status = "raised"])
            /\ UNCHANGED <<tab_handle, queue>>
    /\ UNCHANGED <<globals, locks, driverVars, inst, closedInst, ops>>

\* tab_handle = self.tab_pool.get(): blocks while the queue is empty.
PrGet(t) ==
    /\ pc[t] = "pr_get"
    /\ queue[self[t].tab_pool] # <<>>
    /\ tab_handle' = [tab_handle EXCEPT ![t] = Head(queue[self[t].tab_pool])]
    /\ queue' = [queue EXCEPT ![self[t].tab_pool] = Tail(@)]
    /\ pc' = [pc EXCEPT ![t] = "pr_lock"]
    /\ UNCHANGED <<globals, locks, driverVars, inst, closedInst, self, arg, resp, ops>>

\* with self.lock:
PrLock(t) ==
    /\ pc[t] = "pr_lock"
    /\ GLOBAL_INSTANCE_LOCK = None
    /\ GLOBAL_INSTANCE_LOCK' = t
    /\ pc' = [pc EXCEPT ![t] = "pr_switch"]
    /\ UNCHANGED <<globals, GLOBAL_LOCK, driverVars, queue, inst, closedInst, self, arg, tab_handle,
                   resp, ops>>

\* PrSwitch without the switch: the call goes on in whatever tab is the
\* driver's active context.
PrSwitch_NoSwitch(t) ==
    /\ pc[t] = "pr_switch"
    /\ drvState[self[t].driver] = "running"
    /\ IndexOf(self[t].driver, tab_handle[t]) # 0
    /\ pc' = [pc EXCEPT ![t] = "pr_nav"]
    /\ UNCHANGED <<globals, locks, driverVars, queue, inst, closedInst, self, arg, tab_handle,
                   resp, ops>>

\* self.driver.switch_to.window(tab_handle)
PrSwitch(t) ==
    /\ pc[t] = "pr_switch"
    /\ drvState[self[t].driver] = "running"
    /\ IndexOf(self[t].driver, tab_handle[t]) # 0
    /\ current' = [current EXCEPT ![self[t].driver] = tab_handle[t]]
    /\ pc' = [pc EXCEPT ![t] = "pr_nav"]
    /\ UNCHANGED <<globals, locks, launched, drvState, drvKind, window_handles, loaded,
                   quitCalls, queue, inst, closedInst, self, arg, tab_handle, resp, ops>>

\* self.driver.get(request.url): loads the URL in the active context.
PrNav(t) ==
    /\ pc[t] = "pr_nav"
    /\ drvState[self[t].driver] = "running"
    /\ LET d == self[t].driver IN
        loaded' = [loaded EXCEPT ![d][IndexOf(d, current[d])] = arg[t].url]
    /\ pc' = [pc EXCEPT ![t] = "pr_capture"]
    /\ UNCHANGED <<globals, locks, launched, drvState, drvKind, window_handles, current,
                   quitCalls, queue, inst, closedInst, self, arg, tab_handle, resp, ops>>

\* PrCapture with the lock taken by acquire() and never released: the call
\* leaves the block with the command lock held.
PrCapture_KeepsLock(t) ==
    /\ pc[t] = "pr_capture"
    /\ drvState[self[t].driver] = "running"
    /\ LET d == self[t].driver
           page == loaded[d][IndexOf(d, current[d])]
       IN resp' = [resp EXCEPT ![t] = [op |-> "process_request", status |-> "ok",
                                       url |-> page, body |-> page,
                                       driver |-> d, tab_handle |-> tab_handle[t],
                                       max_tabs |-> NoTabs]]
    /\ pc' = [pc EXCEPT ![t] = "pr_put"]
    /\ UNCHANGED <<globals, locks, driverVars, queue, inst, closedInst, self, arg, tab_handle, ops>>

\* body = page_source; current_url = current_url; the with block ends; the
\* response is built with meta['driver'] and meta['tab_handle'].
PrCapture(t) ==
    /\ pc[t] = "pr_capture"
    /\ drvState[self[t].driver] = "running"
    /\ LET d == self[t].driver
           page == loaded[d][IndexOf(d, current[d])]
       IN resp' = [resp EXCEPT ![t] = [op |-> "process_request", status |-> "ok",
                                       url |-> page, body |-> page,
                                       driver |-> d, tab_handle |-> tab_handle[t],
                                       max_tabs |-> NoTabs]]
    /\ GLOBAL_INSTANCE_LOCK' = Release(GLOBAL_INSTANCE_LOCK, t)
    /\ pc' = [pc EXCEPT ![t] = "pr_put"]
    /\ UNCHANGED <<globals, GLOBAL_LOCK, driverVars, queue, inst, closedInst, self, arg, tab_handle, ops>>

\* PrFail with the lock taken by acquire() and released only at the end of
\* the block: the exception leaves the block with the command lock held.
PrFail_KeepsLock(t) ==
    /\ pc[t] \in {"pr_switch", "pr_nav", "pr_capture"}
    /\ resp' = [resp EXCEPT ![t] = [NoResp EXCEPT !.op = "process_request",
                                                  !.status = "raised",
                                                  !.driver = self[t].driver,
                                                  !.tab_handle = tab_handle[t]]]
    /\ pc' = [pc EXCEPT ![t] = "pr_put"]
    /\ UNCHANGED <<globals, locks, driverVars, queue, inst, closedInst, self, arg, tab_handle, ops>>

\* A driver command inside the with block raises (always, when the driver
\* has been quit): the exception leaves the with block.
PrFail(t) ==
    /\ pc[t] \in {"pr_switch", "pr_nav", "pr_capture"}
    /\ resp' = [resp EXCEPT ![t] = [NoResp EXCEPT !.op = "process_request",
                                                  !.status = "raised",
                                                  !.driver = self[t].driver,
                                                  !.tab_handle = tab_handle[t]]]
    /\ GLOBAL_INSTANCE_LOCK' = Release(GLOBAL_INSTANCE_LOCK, t)
    /\ pc' = [pc EXCEPT ![t] = "pr_put"]
    /\ UNCHANGED <<globals, GLOBAL_LOCK, driverVars, queue, inst, closedInst, self, arg, tab_handle, ops>>

\* return response: Scrapy hands the response to the spider's callback.
Deliver(t) ==
    /\ pc' = [pc EXCEPT ![t] = "parse"]
    /\ arg' = [arg EXCEPT ![t] = NoArg]
    /\ self' = [self EXCEPT ![t] = NoInst]
    /\ UNCHANGED resp

\* PrPut with the put at the end of the try block instead of in finally:
\* the tab is returned only when no exception is pending.
PrPut_OnlyOnSuccess(t) ==
    /\ pc[t] = "pr_put"
    /\ queue' = [queue EXCEPT ![self[t].tab_pool] =
                    IF resp[t].status = "raised" THEN @ ELSE Append(@, tab_handle[t])]
    /\ tab_handle' = [tab_handle EXCEPT ![t] = NoTab]
    /\ IF resp[t].status = "ok" THEN Deliver(t) ELSE Return(t, resp[t])
    /\ UNCHANGED <<globals, locks, driverVars, inst, closedInst, ops>>

\* PrPut on a LIFO pool: the returned tab is the next one handed out.
PrPut_Front(t) ==
    /\ pc[t] = "pr_put"
    /\ queue' = [queue EXCEPT ![self[t].tab_pool] = <<tab_handle[t]>> \o @]
    /\ tab_handle' = [tab_handle EXCEPT ![t] = NoTab]
    /\ IF resp[t].status = "ok" THEN Deliver(t) ELSE Return(t, resp[t])
    /\ UNCHANGED <<globals, locks, driverVars, inst, closedInst, ops>>

\* PrPut that puts back the driver's current window handle instead of the
\* handle the call took.
PrPut_Current(t) ==
    /\ pc[t] = "pr_put"
    /\ queue' = [queue EXCEPT ![self[t].tab_pool] = Append(@, current[self[t].driver])]
    /\ tab_handle' = [tab_handle EXCEPT ![t] = NoTab]
    /\ IF resp[t].status = "ok" THEN Deliver(t) ELSE Return(t, resp[t])
    /\ UNCHANGED <<globals, locks, driverVars, inst, closedInst, ops>>

\* PrPut into the pool the globals name at the time of the put instead of
\* the instance's own pool.
PrPut_GlobalPool(t) ==
    /\ pc[t] = "pr_put"
    /\ LET q == IF GLOBAL_TAB_POOL = None THEN self[t].tab_pool ELSE GLOBAL_TAB_POOL IN
        queue' = [queue EXCEPT ![q] = Append(@, tab_handle[t])]
    /\ tab_handle' = [tab_handle EXCEPT ![t] = NoTab]
    /\ IF resp[t].status = "ok" THEN Deliver(t) ELSE Return(t, resp[t])
    /\ UNCHANGED <<globals, locks, driverVars, inst, closedInst, ops>>

\* finally: self.tab_pool.put(tab_handle); then the response is returned or
\* the exception propagates.
PrPut(t) ==
    /\ pc[t] = "pr_put"
    /\ queue' = [queue EXCEPT ![self[t].tab_pool] = Append(@, tab_handle[t])]
    /\ tab_handle' = [tab_handle EXCEPT ![t] = NoTab]
    /\ IF resp[t].status = "ok" THEN Deliver(t) ELSE Return(t, resp[t])
    /\ UNCHANGED <<globals, locks, driverVars, inst, closedInst, ops>>

\* ---------------------------------- CarexpertFeaturesSpecsSpider.parse
\* The page of a variant that the page of request u links to.
VariantOf(u) == 0 - u

\* driver = response.meta.get("driver"); find_variant_links(driver); then
\* driver.get(variant_url) loads the variant page in the driver's active
\* context; the callback holds neither a tab nor the command lock.
ParseGet(t) ==
    /\ pc[t] = "parse"
    /\ drvState[resp[t].driver] = "running"
    /\ LET d == resp[t].driver IN
        loaded' = [loaded EXCEPT ![d][IndexOf(d, current[d])] = VariantOf(t)]
    /\ pc' = [pc EXCEPT ![t] = "idle"]
    /\ UNCHANGED <<globals, locks, launched, drvState, drvKind, window_handles, current,
                   quitCalls, queue, inst, closedInst, self, arg, tab_handle, resp, ops>>

\* No variant link is found, or driver.get raises and the callback logs the
\* error: the callback ends without a navigation.
ParseEnd(t) ==
    /\ pc[t] = "parse"
    /\ pc' = [pc EXCEPT ![t] = "idle"]
    /\ UNCHANGED <<globals, locks, driverVars, queue, inst, closedInst, self, arg,
                   tab_handle, resp, ops>>

\* --------------------------------------- SeleniumMiddleware.spider_closed
\* A thread calls spider_closed() on the instance that thread i constructed
\* (the close signal of that instance's crawler).
CallSpiderClosed(t, i) ==
    /\ pc[t] = "idle"
    /\ ops < MaxOps
    /\ inst[i] # NoInst
    /\ closedInst' = closedInst \cup {i}
    /\ ops' = ops + 1
    /\ arg' = [arg EXCEPT ![t] = NoArg]
    /\ resp' = [resp EXCEPT ![t] = NoResp]
    /\ pc' = [pc EXCEPT ![t] = "sc_lock"]
    /\ UNCHANGED <<globals, locks, driverVars, queue, inst, self, tab_handle>>

\* ScLock on a lock of its own: spider_closed does not wait for the
\* constructor that holds _GLOBAL_LOCK.
ScLock_NoMutex(t) ==
    /\ pc[t] = "sc_lock"
    /\ GLOBAL_LOCK' = t
    /\ pc' = [pc EXCEPT ![t] = "sc_check"]
    /\ UNCHANGED <<globals, GLOBAL_INSTANCE_LOCK, driverVars, queue, inst, closedInst, self,
                   arg, tab_handle, resp, ops>>

\* with _GLOBAL_LOCK:
ScLock(t) ==
    /\ pc[t] = "sc_lock"
    /\ GLOBAL_LOCK = None
    /\ GLOBAL_LOCK' = t
    /\ pc' = [pc EXCEPT ![t] = "sc_check"]
    /\ UNCHANGED <<globals, GLOBAL_INSTANCE_LOCK, driverVars, queue, inst, closedInst, self, arg,
                   tab_handle, resp, ops>>

\* ScNoop without the `is not None` test: quit() is called on None and the
\* resulting exception is printed by the except clause.
ScNoop_Quits(t) ==
    /\ pc[t] = "sc_check"
    /\ GLOBAL_DRIVER = None
    /\ quitCalls' = quitCalls + 1
    /\ GLOBAL_LOCK' = Release(GLOBAL_LOCK, t)
    /\ Return(t, [NoResp EXCEPT !.op = "spider_closed", !.status = "quit_raised"])
    /\ UNCHANGED <<globals, GLOBAL_INSTANCE_LOCK, launched, drvState, drvKind,
                   window_handles, current, loaded, queue, inst, closedInst, tab_handle, ops>>

\* else: "Global browser already closed"
ScNoop(t) ==
    /\ pc[t] = "sc_check"
    /\ GLOBAL_DRIVER = None
    /\ GLOBAL_LOCK' = Release(GLOBAL_LOCK, t)
    /\ Return(t, [NoResp EXCEPT !.op = "spider_closed", !.status = "noop"])
    /\ UNCHANGED <<globals, GLOBAL_INSTANCE_LOCK, driverVars, queue, inst, closedInst, tab_handle, ops>>

\* _GLOBAL_DRIVER.quit() returns: the driver process is gone.
ScQuit(t) ==
    /\ pc[t] = "sc_check"
    /\ GLOBAL_DRIVER # None
    /\ quitCalls' = quitCalls + 1
    /\ drvState' = [drvState EXCEPT ![GLOBAL_DRIVER] = "quit"]
    /\ pc' = [pc EXCEPT ![t] = "sc_clear"]
    /\ UNCHANGED <<globals, locks, launched, drvKind, window_handles, current, loaded,
                   queue, inst, closedInst, self, arg, tab_handle, resp, ops>>

\* _GLOBAL_DRIVER.quit() raises, before or after the process ended; the
\* except clause swallows the exception and the globals keep their values.
ScQuitFail(t, st) ==
    /\ pc[t] = "sc_check"
    /\ GLOBAL_DRIVER # None
    /\ st \in {drvState[GLOBAL_DRIVER], "quit"}
    /\ quitCalls' = quitCalls + 1
    /\ drvState' = [drvState EXCEPT ![GLOBAL_DRIVER] = st]
    /\ GLOBAL_LOCK' = Release(GLOBAL_LOCK, t)
    /\ Return(t, [NoResp EXCEPT !.op = "spider_closed", !.status = "quit_raised"])
    /\ UNCHANGED <<globals, GLOBAL_INSTANCE_LOCK, launched, drvKind, window_handles,
                   current, loaded, queue, inst, closedInst, tab_handle, ops>>

\* _GLOBAL_DRIVER = None; _GLOBAL_TAB_POOL = None; _GLOBAL_MAX_TABS = None
ScClear(t) ==
    /\ pc[t] = "sc_clear"
    /\ GLOBAL_DRIVER' = None
    /\ GLOBAL_TAB_POOL' = None
    /\ GLOBAL_MAX_TABS' = NoTabs
    /\ GLOBAL_LOCK' = Release(GLOBAL_LOCK, t)
    /\ Return(t, [NoResp EXCEPT !.op = "spider_closed", !.status = "closed"])
    /\ UNCHANGED <<GLOBAL_INSTANCE_LOCK, driverVars, queue, inst, closedInst, tab_handle, ops>>

\* ------------------------------------------------------------ behaviour
Next ==
    \/ \E t \in Threads, b \in Browsers, n \in TabArgs : CallInit(t, b, n)
    \/ \E t \in Threads : InitLock(t)
    \/ \E t \in Threads : InitReuse(t)
    \/ \E t \in Threads, ext \in BOOLEAN : InitLaunch(t, ext)
    \/ \E t \in Threads : InitLaunchFail(t)
    \/ \E t \in Threads : InitPool(t)
    \/ \E t \in Threads : InitOpen(t)
    \/ \E t \in Threads : InitEnum(t)
    \/ \E t \in Threads : InitStore(t)
    \/ \E t \in Threads : InitFail(t)
    \/ \E t \in Threads, i \in Threads : CallProcessRequest(t, i)
    \/ \E t \in Threads : PrGet(t)
    \/ \E t \in Threads : PrLock(t)
    \/ \E t \in Threads : PrSwitch(t)
    \/ \E t \in Threads : PrNav(t)
    \/ \E t \in Threads : PrCapture(t)
    \/ \E t \in Threads : PrFail(t)
    \/ \E t \in Threads : PrPut(t)
    \/ \E t \in Threads : ParseGet(t)
    \/ \E t \in Threads : ParseEnd(t)
    \/ \E t \in Threads, i \in Threads : CallSpiderClosed(t, i)
    \/ \E t \in Threads : ScLock(t)
    \/ \E t \in Threads : ScNoop(t)
    \/ \E t \in Threads : ScQuit(t)
    \/ \E t \in Threads, st \in {"running", "quit"} : ScQuitFail(t, st)
    \/ \E t \in Threads : ScClear(t)

Spec == Init /\ [][Next]_vars

\* ======================================================== properties
PrPcs == {"pr_get", "pr_lock", "pr_switch", "pr_nav", "pr_capture", "pr_put"}
InitPcs == {"init_lock", "init_check", "init_pool", "init_open", "init_store"}

EmptyGlobals ==
    /\ GLOBAL_DRIVER = None
    /\ GLOBAL_TAB_POOL = None
    /\ GLOBAL_MAX_TABS = NoTabs

\* The instances that exist: those the threads constructed and those that
\* calls in flight run on.
Instances ==
    ({inst[t] : t \in Threads} \cup {self[t] : t \in {u \in Threads : pc[u] \in PrPcs}})
        \ {NoInst}

\* The sessions whose creation completed: some instance or the globals
\* refer to their pool.
Created(d) == GLOBAL_TAB_POOL = d \/ \E m \in Instances : m.tab_pool = d

\* How often handle h is in the Queue object q / how many calls hold it.
Count(s, h) == Cardinality({j \in 1 .. Len(s) : s[j] = h})
InPool(q, h) == Count(queue[q], h)
Holders(h) == Cardinality({t \in Threads : tab_handle[t] = h})
\* The calls that hold a tab of driver d.
CheckedOut(d) == {t \in Threads : tab_handle[t] # NoTab /\ tab_handle[t][1] = d}

Constructed == {t \in Threads : inst[t] # NoInst}
Constructing == {t \in Threads : pc[t] \in InitPcs /\ inst[t] = NoInst}

\* Every call made so far is the first constructor call of its thread and
\* none of them raised: N threads that construct concurrently from the
\* empty process state.
OnlyConstructors == ops = Cardinality(Constructed) + Cardinality(Constructing)

\* C1: when N threads call the constructor concurrently and no session
\* exists before, one driver is launched (never a second one, and exactly
\* one once all calls have returned), and all the instances hold the same
\* driver, the same pool and the same command lock, which are the globals.
C1_Singleton ==
    OnlyConstructors =>
        /\ launched <= 1
        /\ Constructed # {} => launched = 1
        /\ \A t \in Constructed :
            /\ inst[t].driver = GLOBAL_DRIVER
            /\ inst[t].tab_pool = GLOBAL_TAB_POOL
            /\ inst[t].lock = InstanceLock
            /\ \A u \in Constructed : inst[u] = inst[t]

C1_Witness ==
    /\ OnlyConstructors
    /\ Constructed = Threads
    /\ \A t \in Threads : pc[t] = "idle"
    /\ launched = 1

\* C2: every tab of a created session is in its pool exactly once or held
\* by exactly one process_request call, never both and never neither.
C2_ExclusiveOwnership ==
    \A d \in Drivers : Created(d) =>
        \A k \in 1 .. Len(window_handles[d]) :
            InPool(d, window_handles[d][k]) + Holders(window_handles[d][k]) = 1

C2_Witness ==
    \E t, u \in Threads :
        /\ t # u
        /\ tab_handle[t] # NoTab
        /\ tab_handle[u] # NoTab
        /\ tab_handle[t][1] = tab_handle[u][1]
        /\ pc[t] = "pr_put"
        /\ resp[t].status = "raised"

\* C3: for every instance with a tab count of at least 1, the number of
\* tabs in its pool plus the number of tabs checked out equals the tab
\* count, in every state after the session was created.
C3_PoolConservation ==
    \A m \in Instances : m.max_tabs >= 1 =>
        Len(queue[m.tab_pool]) + Cardinality(CheckedOut(m.driver)) = m.max_tabs

C3_Witness ==
    \E m \in Instances :
        /\ m.max_tabs = 2
        /\ Cardinality(CheckedOut(m.driver)) = 2
        /\ queue[m.tab_pool] = <<>>
        /\ \E t \in Threads : pc[t] = "pr_put" /\ resp[t].status = "raised"

\* C4: when process_request ends with an exception of its switch,
\* navigation or capture step, the tab it acquired is in the pool at the
\* moment it returns, the exception reaches the caller, and no tab was
\* created.
C4_ReleaseOnFailure ==
    [][\A t \in Threads :
        (pc[t] = "pr_put" /\ resp[t].status = "raised" /\ pc'[t] = "idle") =>
            /\ Count(queue'[self[t].tab_pool], tab_handle[t]) = 1
            /\ resp'[t].status = "raised"
            /\ window_handles' = window_handles]_vars

\* A later call holds the tab that a failed call had acquired.
C4_Witness ==
    \E t, u \in Threads :
        /\ t # u
        /\ pc[t] = "idle"
        /\ resp[t].op = "process_request"
        /\ resp[t].status = "raised"
        /\ tab_handle[u] = resp[t].tab_handle

\* C5: a process_request call made after the session of its instance was
\* torn down acquires no tab (and so issues no driver command).
C5_FailsFastWhenClosed ==
    \A t \in Threads : (pc[t] \in PrPcs /\ arg[t].closed) => pc[t] = "pr_get"

\* C6: spider_closed that finds no session calls no quit, raises nothing
\* and leaves the globals empty and every driver as it was.
C6_IdempotentTeardown ==
    [][\A t \in Threads :
        (pc[t] = "sc_check" /\ GLOBAL_DRIVER = None /\ pc'[t] # "sc_check") =>
            /\ quitCalls' = quitCalls
            /\ drvState' = drvState
            /\ EmptyGlobals'
            /\ pc'[t] = "idle"
            /\ resp'[t].status = "noop"]_vars

\* The second of two spider_closed calls in a row found nothing to close.
C6_Witness ==
    \E t \in Threads :
        /\ pc[t] = "idle"
        /\ resp[t].op = "spider_closed"
        /\ resp[t].status = "noop"
        /\ quitCalls = 1
        /\ \E d \in Drivers : drvState[d] = "quit"
        /\ EmptyGlobals

\* C7: a constructor call that finds a session launches no driver, opens
\* no tab, changes neither the pool nor the globals, and its instance gets
\* the driver, the pool and the tab count of the globals.
C7_FirstCallerConfigures ==
    [][\A t \in Threads :
        (pc[t] = "init_check" /\ GLOBAL_DRIVER # None /\ pc'[t] # "init_check") =>
            /\ launched' = launched
            /\ window_handles' = window_handles
            /\ queue' = queue
            /\ globals' = globals
            /\ inst'[t].driver = GLOBAL_DRIVER
            /\ inst'[t].tab_pool = GLOBAL_TAB_POOL
            /\ inst'[t].max_tabs = GLOBAL_MAX_TABS]_vars

\* Two constructor calls, both asking for MaxTabs tabs: the second reused
\* the session, which still has MaxTabs tabs.
C7_Witness ==
    \E t, u \in Threads :
        /\ t # u
        /\ resp[t].status = "reused"
        /\ resp[t].max_tabs = MaxTabs
        /\ resp[u].status = "created"
        /\ resp[u].max_tabs = MaxTabs
        /\ inst[t] = inst[u]
        /\ GLOBAL_DRIVER = inst[t].driver
        /\ Len(window_handles[GLOBAL_DRIVER]) = MaxTabs

\* C8: once a session was torn down, the globals never hold another one.
C8_DestroyedIsTerminal ==
    \A d \in Drivers : drvState[d] = "quit" => GLOBAL_DRIVER \in {None, d}

\* C9: at most one driver process runs at any time.
C9_AtMostOneDriver ==
    Cardinality({d \in Drivers : drvState[d] = "running"}) <= 1

\* C10: a constructor call in which the driver launch fails ends with an
\* error, with _GLOBAL_LOCK free, the globals empty, no driver launched and
\* no instance.
C10_LaunchFailureLeavesEmpty ==
    [][\A t \in Threads :
        (pc[t] = "init_check" /\ pc'[t] = "idle" /\ GLOBAL_DRIVER = None) =>
            /\ resp'[t].status = "launch_failed"
            /\ GLOBAL_LOCK' = None
            /\ EmptyGlobals'
            /\ launched' = launched
            /\ inst'[t] = inst[t]]_vars

\* After a failed launch a later constructor call launched a driver.
C10_Witness ==
    \E t, u \in Threads :
        /\ pc[t] = "idle"
        /\ resp[t].status = "launch_failed"
        /\ pc[u] = "init_pool"
        /\ launched = 1

\* The positions of the constructor and of spider_closed inside their
\* `with _GLOBAL_LOCK:` blocks, and of process_request inside `with self.lock:`.
InitSection == {"init_check", "init_pool", "init_open", "init_store"}
ScSection == {"sc_check", "sc_clear"}
CommandSection == {"pr_switch", "pr_nav", "pr_capture"}

\* C11: a spider_closed call that finds a session returns with the driver
\* terminated and the globals empty, also when quit raises.
C11_TeardownClears ==
    [][\A t \in Threads :
        (pc[t] \in ScSection /\ GLOBAL_DRIVER # None /\ pc'[t] = "idle") =>
            /\ EmptyGlobals'
            /\ drvState'[GLOBAL_DRIVER] = "quit"]_vars

\* C12: while a constructor is inside its locked block (in particular
\* between the launch and the store of the globals) no spider_closed is
\* inside its locked block, and the other way round; whoever is inside holds
\* _GLOBAL_LOCK.
C12_CreationExcludesTeardown ==
    \A t \in Threads :
        pc[t] \in InitSection \cup ScSection =>
            /\ GLOBAL_LOCK = t
            /\ \A u \in Threads \ {t} : pc[u] \notin InitSection \cup ScSection

\* A constructor is between the launch and the store while a spider_closed
\* call waits for the lock.
C12_Witness ==
    \E t, u \in Threads :
        /\ pc[t] \in {"init_pool", "init_open", "init_store"}
        /\ pc[u] = "sc_lock"

\* C13: when the creation of a session with max_tabs >= 1 completes, its
\* pool holds exactly max_tabs pairwise distinct handles: the initial tab
\* first, then the max_tabs - 1 tabs that were opened.
C13_PoolPostcondition ==
    \A t \in Threads :
        (pc[t] = "init_store" /\ self[t].max_tabs >= 1) =>
            LET q == queue[self[t].tab_pool]
                d == self[t].driver
            IN /\ Len(q) = self[t].max_tabs
               /\ \A i, j \in 1 .. Len(q) : i # j => q[i] # q[j]
               /\ q[1] = Handle(d, 1)
               /\ q = window_handles[d]

C13_Witness ==
    \E t \in Threads :
        /\ pc[t] = "init_store"
        /\ self[t].max_tabs = MaxTabs
        /\ Len(queue[self[t].tab_pool]) = MaxTabs

\* C14: at most one process_request call is inside switch-navigate-capture,
\* and what a call captures is the page of the URL it navigated to.
C14_SerializedCapture ==
    /\ Cardinality({t \in Threads : pc[t] \in CommandSection}) <= 1
    /\ \A t \in Threads :
        (resp[t].op = "process_request" /\ resp[t].status = "ok") =>
            /\ resp[t].url = t
            /\ resp[t].body = t

\* ------------------------------------------------------------------
\* One middleware instance with TabCount15 tabs, as SeleniumMiddleware(
\* max_tabs=TabCount15) leaves it, and TabCount15 + 1 threads that each call
\* process_request on it once, concurrently.
TabCount15 == 3
Threads15 == 1 .. (TabCount15 + 1)

Instance15 == [driver |-> 1, tab_pool |-> 1, max_tabs |-> TabCount15, lock |-> InstanceLock]

Init15 ==
    /\ GLOBAL_DRIVER = 1
    /\ GLOBAL_TAB_POOL = 1
    /\ GLOBAL_MAX_TABS = TabCount15
    /\ GLOBAL_LOCK = None
    /\ GLOBAL_INSTANCE_LOCK = None
    /\ launched = 1
    /\ drvState = [d \in Drivers |-> IF d = 1 THEN "running" ELSE "none"]
    /\ drvKind = [d \in Drivers |-> IF d = 1 THEN [browser |-> "firefox", ext |-> FALSE]
                                            ELSE [browser |-> "none", ext |-> FALSE]]
    /\ window_handles = [d \in Drivers |->
                            IF d = 1 THEN [k \in 1 .. TabCount15 |-> Handle(1, k)] ELSE <<>>]
    /\ current = [d \in Drivers |-> IF d = 1 THEN Handle(1, 1) ELSE NoTab]
    /\ loaded = [d \in Drivers |-> IF d = 1 THEN [k \in 1 .. TabCount15 |-> Blank] ELSE <<>>]
    /\ queue = [d \in Drivers |->
                    IF d = 1 THEN [k \in 1 .. TabCount15 |-> Handle(1, k)] ELSE <<>>]
    /\ inst = [t \in Threads15 |-> IF t = 1 THEN Instance15 ELSE NoInst]
    /\ closedInst = {}
    /\ pc = [t \in Threads15 |-> "idle"]
    /\ self = [t \in Threads15 |-> NoInst]
    /\ arg = [t \in Threads15 |-> NoArg]
    /\ tab_handle = [t \in Threads15 |-> NoTab]
    /\ resp = [t \in Threads15 |-> NoResp]
    /\ quitCalls = 0
    /\ ops = 0

\* Thread t issues its one request.
Dispatch15(t) ==
    /\ resp[t] = NoResp
    /\ CallProcessRequest(t, 1)

Next15 ==
    \E t \in Threads15 :
        \/ Dispatch15(t)
        \/ PrGet(t)
        \/ PrLock(t)
        \/ PrSwitch(t)
        \/ PrNav(t)
        \/ PrCapture(t)
        \/ PrFail(t)
        \/ PrPut(t)
        \/ ParseGet(t)
        \/ ParseEnd(t)

Spec15 == Init15 /\ [][Next15]_vars

\* The calls that hold a tab, and the calls that have returned theirs.
Holding15 == {t \in Threads15 : tab_handle[t] # NoTab}
Returned15 == {t \in Threads15 : tab_handle[t] = NoTab /\ resp[t].tab_handle # NoTab}

\* C15: with TabCount15 tabs, a call waits at the acquisition only when all
\* TabCount15 tabs are held by other calls, the calls that hold tabs hold
\* pairwise distinct ones and report them in their results, a call that
\* finds all tabs held stays blocked, and the call that acquires after all
\* the others have acquired gets the tab that a finished call returned.
C15_ThreeProceedFourthWaits ==
    /\ [](\A t \in Threads15 :
            /\ (pc[t] = "pr_get" /\ Cardinality(Holding15) < TabCount15) =>
                    queue[self[t].tab_pool] # <<>>
            /\ (pc[t] = "pr_get" /\ Cardinality(Holding15) = TabCount15) =>
                    queue[self[t].tab_pool] = <<>>
            /\ \A u \in Holding15 \ {t} : tab_handle[u] # tab_handle[t]
            /\ (pc[t] = "pr_put" /\ resp[t].status = "ok") =>
                    resp[t].tab_handle = tab_handle[t])
    /\ [][\A t \in Threads15 :
            (/\ pc[t] = "pr_get"
             /\ pc'[t] = "pr_lock"
             /\ Holding15 \cup Returned15 = Threads15 \ {t}) =>
                /\ \E u \in Returned15 : tab_handle'[t] = resp[u].tab_handle
                /\ \A u \in Holding15 : tab_handle'[t] # tab_handle[u]]_vars

\* All tabs are held again, one of them by the call that had to wait: it
\* holds the tab that a finished call reported in its result.
C15_Witness ==
    /\ Cardinality(Holding15) = TabCount15
    /\ \E t \in Holding15, u \in Returned15 :
        /\ resp[u].status = "ok"
        /\ tab_handle[t] = resp[u].tab_handle
        /\ pc[t] = "pr_put"
        /\ resp[t].status = "ok"

\* ------------------------------------------------------------------
\* C16: while the callback of a request works on the response, the tab the
\* request used is held by no other call and is the driver's active context.
C16_BoundUntilCallbackEnds ==
    \A t \in Threads :
        pc[t] = "parse" =>
            /\ Holders(resp[t].tab_handle) = 0
            /\ current[resp[t].driver] = resp[t].tab_handle

\* C17: a driver command that changes the active tab or the page of a tab of
\* a running driver is issued by a process_request call that holds the
\* command lock, and the pool of a driver is mutated only by the get and the
\* put of process_request (and by the constructor that builds it).
C17_OnlyDispatcherCommands ==
    [][\A d \in Drivers :
        /\ (/\ drvState[d] = "running"
            /\ drvState'[d] = "running"
            /\ Len(loaded'[d]) = Len(loaded[d])
            /\ (loaded'[d] # loaded[d] \/ current'[d] # current[d])) =>
                \E t \in Threads :
                    /\ GLOBAL_INSTANCE_LOCK = t
                    /\ pc[t] \in CommandSection
                    /\ pc'[t] # pc[t]
        /\ queue'[d] # queue[d] =>
                \E t \in Threads :
                    /\ pc[t] \in {"pr_get", "pr_put"} \cup InitSection
                    /\ pc'[t] # pc[t] \/ arg'[t] # arg[t]]_vars

\* C18: a process_request call that fails inside the locked block leaves the
\* block with the command lock free and the tab, the outcome and the position
\* of every other call unchanged; it returns with its tab in the pool once;
\* and the lock is only ever held by a call inside the block, so a call that
\* waits for it can take it as soon as the block is empty.
C18_FailureIsolation ==
    /\ [](\A t \in Threads : GLOBAL_INSTANCE_LOCK = t => pc[t] \in CommandSection)
    /\ [][\A t \in Threads :
            /\ (pc[t] \in CommandSection /\ pc'[t] = "pr_put" /\ resp'[t].status = "raised") =>
                    /\ GLOBAL_INSTANCE_LOCK' = None
                    /\ queue' = queue
                    /\ \A u \in Threads \ {t} :
                        /\ tab_handle'[u] = tab_handle[u]
                        /\ resp'[u] = resp[u]
                        /\ pc'[u] = pc[u]
            /\ (pc[t] = "pr_put" /\ resp[t].status = "raised" /\ pc'[t] = "idle") =>
                    /\ Count(queue'[self[t].tab_pool], tab_handle[t]) = 1
                    /\ \A u \in Threads \ {t} :
                        /\ tab_handle'[u] = tab_handle[u]
                        /\ resp'[u] = resp[u]
                        /\ pc'[u] = pc[u]]_vars

\* One call has failed on a running driver while another call, on another
\* tab at the same time, has captured the page of its own URL.
C18_Witness ==
    \E t, u \in Threads :
        /\ pc[t] = "pr_put"
        /\ resp[t].status = "raised"
        /\ drvState[resp[t].driver] = "running"
        /\ pc[u] = "pr_put"
        /\ resp[u].status = "ok"
        /\ resp[u].url = u
        /\ tab_handle[u] # tab_handle[t]

\* C19: the driver of an instance that has not been closed is not quit.
C19_OnlyLastInstanceQuits ==
    \A i \in Threads :
        (inst[i] # NoInst /\ i \notin closedInst) => drvState[inst[i].driver] # "quit"

\* C20: the response built by process_request carries the instance's driver
\* and the tab handle the call took from the pool, that tab is the driver's
\* active context at the capture, URL and body are those of the active
\* context read while the call holds the command lock, and the response is
\* handed over as built.
C20_ResponseMetadata ==
    [][\A t \in Threads :
        /\ (pc[t] = "pr_capture" /\ pc'[t] = "pr_put" /\ resp'[t].status = "ok") =>
            LET d == self[t].driver IN
                /\ GLOBAL_INSTANCE_LOCK = t
                /\ resp'[t].driver = d
                /\ resp'[t].tab_handle = tab_handle[t]
                /\ tab_handle[t] # NoTab
                /\ current[d] = tab_handle[t]
                /\ resp'[t].url = loaded[d][IndexOf(d, tab_handle[t])]
                /\ resp'[t].body = loaded[d][IndexOf(d, tab_handle[t])]
        /\ (pc[t] = "pr_put" /\ pc'[t] = "parse") => resp'[t] = resp[t]]_vars

\* A response captured in a tab other than the initial one has been handed
\* to the callback.
C20_Witness ==
    \E t \in Threads :
        /\ pc[t] = "parse"
        /\ resp[t].status = "ok"
        /\ resp[t].driver # None
        /\ resp[t].tab_handle = Handle(resp[t].driver, 2)

\* ------------------------------------------------------------------
\* C21: a call at the acquisition holds neither a tab nor the command lock;
\* while its pool is empty it stays there, without a response or an error;
\* and it leaves the acquisition only with a tab taken from the pool.
C21_UnboundedBlockingGet ==
    /\ [](\A t \in Threads :
            pc[t] = "pr_get" => (tab_handle[t] = NoTab /\ GLOBAL_INSTANCE_LOCK # t))
    /\ [][\A t \in Threads :
            /\ (pc[t] = "pr_get" /\ queue[self[t].tab_pool] = <<>>) =>
                    /\ pc'[t] = "pr_get"
                    /\ resp'[t] = resp[t]
                    /\ tab_handle'[t] = NoTab
            /\ (pc[t] = "pr_get" /\ pc'[t] # "pr_get") =>
                    /\ pc'[t] = "pr_lock"
                    /\ Count(queue[self[t].tab_pool], tab_handle'[t]) = 1]_vars

\* A call waits at the acquisition of an empty pool whose only tab another
\* call holds.
C21_Witness ==
    \E t, u \in Threads :
        /\ pc[t] = "pr_get"
        /\ queue[self[t].tab_pool] = <<>>
        /\ drvState[self[t].driver] = "running"
        /\ tab_handle[u] # NoTab
        /\ tab_handle[u][1] = self[t].tab_pool

\* C23: a pool changes only by losing its head to a call at the acquisition
\* or by gaining a returned tab at its tail (or by its construction), and a
\* stored session's pool starts with the initial main tab at its head.
C23_FifoOrder ==
    [][/\ \A d \in Drivers :
            queue'[d] # queue[d] =>
                \/ \E t \in Threads :
                    /\ pc[t] = "pr_get"
                    /\ pc'[t] = "pr_lock"
                    /\ queue[d] # <<>>
                    /\ tab_handle'[t] = Head(queue[d])
                    /\ queue'[d] = Tail(queue[d])
                \/ \E t \in Threads :
                    /\ pc[t] = "pr_put"
                    /\ queue'[d] = Append(queue[d], tab_handle[t])
                \/ \E t \in Threads : pc[t] \in InitSection /\ self[t].driver = d
       /\ \A t \in Threads :
            (pc[t] = "init_store" /\ pc'[t] = "idle") =>
                Head(queue[self[t].tab_pool]) = Handle(self[t].driver, 1)]_vars

\* A call has returned the main tab behind the second tab of the pool.
C23_Witness ==
    \E d \in Drivers :
        /\ drvState[d] = "running"
        /\ queue[d] = <<Handle(d, 2), Handle(d, 1)>>

\* The tab identifiers of session d in circulation: in its pool or held.
TabSet(d) ==
    {queue[d][k] : k \in 1 .. Len(queue[d])}
        \cup {tab_handle[t] : t \in CheckedOut(d)}

\* C24: the set of tab identifiers of a created session never changes, and a
\* call's handle changes only when it takes it from the pool and when it puts
\* that same handle back.
C24_FixedTabSet ==
    [][/\ \A d \in Drivers :
            (Created(d) /\ Created(d)') => TabSet(d)' = TabSet(d)
       /\ \A t \in Threads :
            tab_handle'[t] # tab_handle[t] =>
                \/ /\ pc[t] = "pr_get"
                   /\ tab_handle[t] = NoTab
                   /\ tab_handle'[t] \in TabSet(self[t].tab_pool)
                \/ /\ pc[t] = "pr_put"
                   /\ tab_handle'[t] = NoTab
                   /\ queue'[self[t].tab_pool] = Append(queue[self[t].tab_pool], tab_handle[t])]_vars

\* A two-tab session after a call took a tab, switched to it and put it back
\* while the other tab stayed in the pool.
C24_Witness ==
    \E d \in Drivers, t \in Threads :
        /\ Created(d)
        /\ Len(window_handles[d]) = 2
        /\ resp[t].op = "process_request"
        /\ resp[t].tab_handle # NoTab
        /\ tab_handle[t] = NoTab
        /\ TabSet(d) = {Handle(d, 1), Handle(d, 2)}
        /\ resp[t].driver = d

\* ------------------------------------------------------------------
\* A live session with n tabs, 1 <= n <= MaxTabs, as SeleniumMiddleware(
\* max_tabs=n) leaves it, on which the threads call process_request; nothing
\* closes the session.
Init22 ==
    \E n \in 1 .. MaxTabs :
        /\ GLOBAL_DRIVER = 1
        /\ GLOBAL_TAB_POOL = 1
        /\ GLOBAL_MAX_TABS = n
        /\ GLOBAL_LOCK = None
        /\ GLOBAL_INSTANCE_LOCK = None
        /\ launched = 1
        /\ drvState = [d \in Drivers |-> IF d = 1 THEN "running" ELSE "none"]
        /\ drvKind = [d \in Drivers |-> IF d = 1 THEN [browser |-> "firefox", ext |-> FALSE]
                                                ELSE [browser |-> "none", ext |-> FALSE]]
        /\ window_handles = [d \in Drivers |->
                                IF d = 1 THEN [k \in 1 .. n |-> Handle(1, k)] ELSE <<>>]
        /\ current = [d \in Drivers |-> IF d = 1 THEN Handle(1, 1) ELSE NoTab]
        /\ loaded = [d \in Drivers |-> IF d = 1 THEN [k \in 1 .. n |-> Blank] ELSE <<>>]
        /\ queue = [d \in Drivers |->
                        IF d = 1 THEN [k \in 1 .. n |-> Handle(1, k)] ELSE <<>>]
        /\ inst = [t \in Threads |->
                        IF t = 1 THEN [driver |-> 1, tab_pool |-> 1, max_tabs |-> n,
                                       lock |-> InstanceLock]
                                 ELSE NoInst]
        /\ closedInst = {}
        /\ pc = [t \in Threads |-> "idle"]
        /\ self = [t \in Threads |-> NoInst]
        /\ arg = [t \in Threads |-> NoArg]
        /\ tab_handle = [t \in Threads |-> NoTab]
        /\ resp = [t \in Threads |-> NoResp]
        /\ quitCalls = 0
        /\ ops = 0

Next22 ==
    \E t \in Threads :
        \/ CallProcessRequest(t, 1)
        \/ PrGet(t)
        \/ PrLock(t)
        \/ PrSwitch(t)
        \/ PrNav(t)
        \/ PrCapture(t)
        \/ PrFail(t)
        \/ PrPut(t)
        \/ ParseGet(t)
        \/ ParseEnd(t)

\* Fair scheduling: a thread that can take a tab, take the lock or put its
\* tab back eventually does; every driver command returns or raises.
Fair22 ==
    \A t \in Threads :
        /\ WF_vars(PrGet(t))
        /\ WF_vars(PrLock(t))
        /\ WF_vars(PrSwitch(t) \/ PrNav(t) \/ PrCapture(t) \/ PrFail(t))
        /\ WF_vars(PrPut(t))

Spec22 == Init22 /\ [][Next22]_vars /\ Fair22

\* C22: under fair scheduling every process_request call on a live session
\* with at least one tab eventually returns, and whenever no call is in
\* flight the pool holds all the session's tabs.
C22_EveryCallReturns ==
    /\ \A t \in Threads : (pc[t] \in PrPcs) ~> (pc[t] \notin PrPcs)
    /\ []((\A t \in Threads : pc[t] \notin PrPcs) =>
            /\ Len(queue[GLOBAL_TAB_POOL]) = GLOBAL_MAX_TABS
            /\ {queue[GLOBAL_TAB_POOL][k] : k \in 1 .. Len(queue[GLOBAL_TAB_POOL])}
                    = {Handle(GLOBAL_DRIVER, k) : k \in 1 .. GLOBAL_MAX_TABS})

\* Two calls have run on a one-tab session, the second after waiting for the
\* tab the first held or after it, one returning a result and one an error,
\* and no call is in flight.
C22_Witness ==
    /\ GLOBAL_MAX_TABS = 1
    /\ \A t \in Threads : pc[t] \notin PrPcs
    /\ \E t, u \in Threads :
        /\ resp[t].status = "ok"
        /\ resp[u].status = "raised"
    /\ ops = MaxOps

\* ------------------------------------------------------------------
\* C25: the step that launches the driver goes on to the pool construction
\* in the same way whether the extension was added (ext) or add_extension
\* raised, and the session that is then stored is the one that was built.
C25_ExtensionOptional ==
    [][\A t \in Threads :
        /\ (pc[t] = "init_check" /\ launched' # launched) =>
            LET d == launched' IN
                /\ pc'[t] = "init_pool"
                /\ GLOBAL_LOCK' = t
                /\ drvState'[d] = "running"
                /\ window_handles'[d] = <<Handle(d, 1)>>
                /\ current'[d] = Handle(d, 1)
                /\ self'[t] = [driver |-> d, tab_pool |-> None,
                               max_tabs |-> arg[t].max_tabs, lock |-> InstanceLock]
        /\ (pc[t] = "init_store" /\ pc'[t] = "idle") =>
                /\ GLOBAL_DRIVER' = self[t].driver
                /\ GLOBAL_TAB_POOL' = self[t].tab_pool
                /\ GLOBAL_MAX_TABS' = self[t].max_tabs
                /\ queue'[self[t].tab_pool] = window_handles'[self[t].driver]
                /\ inst'[t] = self[t]]_vars

\* A session with MaxTabs tabs is stored whose Firefox driver came up
\* without the extension.
C25_Witness ==
    /\ GLOBAL_DRIVER # None
    /\ drvKind[GLOBAL_DRIVER] = [browser |-> "firefox", ext |-> FALSE]
    /\ GLOBAL_MAX_TABS = MaxTabs
    /\ queue[GLOBAL_TAB_POOL] = window_handles[GLOBAL_DRIVER]
    /\ Len(queue[GLOBAL_TAB_POOL]) = MaxTabs

\* Thread t waits for a lock that is held or for a tab of an empty pool.
Blocked(t) ==
    \/ pc[t] \in {"init_lock", "sc_lock"} /\ GLOBAL_LOCK # None
    \/ pc[t] = "pr_lock" /\ GLOBAL_INSTANCE_LOCK # None
    \/ pc[t] = "pr_get" /\ queue[self[t].tab_pool] = <<>>

\* C26: the creation lock is held only inside the locked blocks of the
\* constructor and of spider_closed and the command lock only inside the
\* locked block of process_request, where a thread waits for nothing; a
\* thread that waits for a tab waits for one that a call in flight holds; so
\* every chain of waiting ends at a thread that can proceed.
C26_NoDeadlock ==
    \A t \in Threads :
        /\ GLOBAL_LOCK = t => (pc[t] \in InitSection \cup ScSection /\ ~Blocked(t))
        /\ GLOBAL_INSTANCE_LOCK = t => (pc[t] \in CommandSection /\ ~Blocked(t))
        /\ (pc[t] = "pr_get" /\ Blocked(t)) =>
                \E u \in CheckedOut(self[t].tab_pool) : pc[u] \in PrPcs \ {"pr_get"}
        /\ Blocked(t) => \E u \in Threads \ {t} : pc[u] \notin {"idle", "parse"} /\ ~Blocked(u)

\* A call waits for the only tab while its holder is inside the locked
\* block.
C26_Witness ==
    \E t, u \in Threads :
        /\ pc[t] = "pr_get"
        /\ Blocked(t)
        /\ GLOBAL_INSTANCE_LOCK = u
        /\ tab_handle[u] # NoTab

\* The number of tabs a constructor call with argument n builds.
TabsBuilt(n) == IF n >= 1 THEN n ELSE 1

\* C27: the three globals are set together and cleared together; a
\* constructor that returns on the reuse path received exactly the stored
\* driver, pool and tab count, no creation was in progress, and the pool of
\* that driver was complete; no call acquires from a pool under construction.
C27_NoPartialSession ==
    /\ []((GLOBAL_DRIVER = None) = (GLOBAL_TAB_POOL = None)
          /\ (GLOBAL_DRIVER = None) = (GLOBAL_MAX_TABS = NoTabs)
          /\ \A t, u \in Threads :
                (pc[t] = "pr_get" /\ pc[u] \in {"init_pool", "init_open"}) =>
                    self[u].driver # self[t].tab_pool)
    /\ [][\A t \in Threads :
            (pc[t] = "init_check" /\ resp'[t].status = "reused") =>
                LET d == GLOBAL_DRIVER IN
                    /\ inst'[t] = [driver |-> GLOBAL_DRIVER, tab_pool |-> GLOBAL_TAB_POOL,
                                   max_tabs |-> GLOBAL_MAX_TABS, lock |-> InstanceLock]
                    /\ GLOBAL_TAB_POOL = d
                    /\ \A u \in Threads : pc[u] \notin {"init_pool", "init_open", "init_store"}
                    /\ Len(window_handles[d]) = TabsBuilt(GLOBAL_MAX_TABS)
                    /\ Len(queue[d]) + Cardinality(CheckedOut(d)) = Len(window_handles[d])]_vars

\* An instance obtained on the reuse path shares a stored session of MaxTabs
\* tabs with the instance that created it.
C27_Witness ==
    \E t, u \in Threads :
        /\ t # u
        /\ resp[t].status = "reused"
        /\ resp[u].status = "created"
        /\ inst[t] = inst[u]
        /\ inst[t].max_tabs = MaxTabs
        /\ Len(queue[inst[t].tab_pool]) = MaxTabs

\* ------------------------------------------------------------------
\* C28: when spider_closed terminates a driver, no process_request call
\* holds one of its tabs or is inside the locked block on it.
C28_TeardownExcludesRequests ==
    [][\A d \in Drivers :
        (drvState[d] = "running" /\ drvState'[d] = "quit") =>
            /\ CheckedOut(d) = {}
            /\ \A t \in Threads : pc[t] \in CommandSection => self[t].driver # d]_vars

\* C29: while the stored session's driver runs, the recorded tab count of
\* the globals and of every instance of that session is the number of tab
\* identifiers of the session in circulation.
C29_TabCountMatches ==
    (GLOBAL_DRIVER # None /\ drvState[GLOBAL_DRIVER] = "running") =>
        /\ GLOBAL_MAX_TABS = Cardinality(TabSet(GLOBAL_TAB_POOL))
        /\ \A m \in Instances :
            m.driver = GLOBAL_DRIVER => m.max_tabs = Cardinality(TabSet(m.tab_pool))

\* C30: every handle in a pool, and every handle a call holds, belongs to
\* the driver of that pool respectively of the call's instance, and the put
\* appends the handle to the pool of the handle's own session, whatever the
\* globals name at that moment.
C30_ReturnsToOwnPool ==
    /\ [](/\ \A d \in Drivers : \A k \in 1 .. Len(queue[d]) : queue[d][k][1] = d
          /\ \A t \in Threads :
                tab_handle[t] # NoTab => tab_handle[t][1] = self[t].tab_pool)
    /\ [][\A t \in Threads :
            (pc[t] = "pr_put" /\ pc'[t] # "pr_put") =>
                LET d == tab_handle[t][1] IN
                    /\ queue'[d] = Append(queue[d], tab_handle[t])
                    /\ \A e \in Drivers \ {d} : queue'[e] = queue[e]]_vars

\* A call that took a tab of the first session is about to put it back
\* after that session was torn down and a second one created.
C30_Witness ==
    \E t \in Threads :
        /\ pc[t] = "pr_put"
        /\ tab_handle[t][1] = 1
        /\ drvState[1] = "quit"
        /\ GLOBAL_TAB_POOL = 2
        /\ queue[2] # <<>>

====
